---- MODULE Spec2Model ----
(***************************************************************************)
(* Bounce: scene-to-measure alignment planner (align_scenes.py), plan      *)
(* record codec (align_scenes.py writer, assemble_video.py reader) and the *)
(* audio mux of the assembly executor (assemble_video.py).                 *)
(*                                                                         *)
(* Real numbers (Python floats, seconds) are fixed-point integers: one     *)
(* unit is 1/SubTicks of a microsecond.  A division of two reals rounds to *)
(* the nearest unit, as a float division rounds to the nearest float.      *)
(* Python's None is the empty sequence and a present value v is <<v>>.     *)
(***************************************************************************)
EXTENDS Integers, Sequences, FiniteSets

\* ------------------------------------------------------------ bounds
MaxMeasures == 5
MaxScenes == 2
MaxMaxMeasures == 2
SubTicks == 10

\* ------------------------------------------------- program constants
\* "{:.6f}": six fractional digits, one written digit is a microsecond
MicroPerSec == 1000000

Sec == MicroPerSec * SubTicks
\* n tenths of a second
T(n) == (n * Sec) \div 10

None == <<>>
Some(v) == <<v>>
Val(o) == o[1]

\* ------------------------------------------------------- arithmetic
Abs(x) == IF x < 0 THEN -x ELSE x
Min(a, b) == IF a <= b THEN a ELSE b
Max(a, b) == IF a >= b THEN a ELSE b

\* int(a / b): Python's int() truncates toward zero
TruncDiv(a, b) ==
    IF (a >= 0) = (b > 0) THEN Abs(a) \div Abs(b) ELSE -(Abs(a) \div Abs(b))

\* a / b for b > 0, rounded to the nearest unit, ties to even
RoundDiv(a, b) ==
    LET q == a \div b
        r == a - q * b
    IN  IF 2 * r < b THEN q
        ELSE IF 2 * r > b THEN q + 1
        ELSE IF q % 2 = 0 THEN q ELSE q + 1

RECURSIVE SumSeq(_)
SumSeq(s) == IF s = <<>> THEN 0 ELSE s[1] + SumSeq(Tail(s))

\* ---------------------------------------------------------- inputs
FirstSet == {0, T(3)}
DurationSet == {T(2), T(10), T(17), T(20), T(26)}

\* n measures from first, half a second apart, the one after measure
\* late (when late > 0) and all that follow a tenth of a second later
Track(first, n, late) ==
    [i \in 1..n |-> first + (i - 1) * T(5) + (IF late > 0 /\ i > late THEN T(1) ELSE 0)]

\* strictly increasing measure tracks, as filter_beats.py writes them
MeasureTracks ==
    {<<>>} \cup {Track(f, n, late) : f \in FirstSet, n \in 1..MaxMeasures,
                                      late \in 0..(MaxMeasures - 1)}

\* the scenes directory holds scene_1.mp4 .. scene_n.mp4
SceneDirs == {1..n : n \in 0..MaxScenes}

MaxMeasuresArgs == {None} \cup {Some(m) : m \in (-1)..MaxMaxMeasures}

\* "if max_measures": None and 0 are falsy
Truthy(mm) == mm # None /\ Val(mm) # 0

VARIABLES
    measures,            \* load_measures(measures_file)
    max_measures,        \* the max_measures argument (None or an integer)
    scenes_dir,          \* numbers n of the files scene_<n>.mp4 in scenes_dir
    scene_files,         \* sorted(glob), None before the listing
    max_scene_duration,  \* None while the local is unbound
    durations,           \* get_video_duration results, in probe order
    scene_data,          \* the plan being built
    pc,                  \* position in align_scenes_to_measures
    plan_file,           \* None, or <<lines>> of the plan record on disk
    scenes,              \* None, or <<entries>> returned by load_scene_plan
    warnings,            \* lines load_scene_plan warned about
    audio_len,           \* true duration of the audio file
    video_len,           \* true duration of the concatenated video
    audio_duration,      \* add_audio's probe results (None before the probe)
    video_duration,
    mux_cmd,             \* None, or <<the ffmpeg mux command>>
    output_len,          \* None, or <<duration of the file at output_path>>
    mux_pc,
    exit_code,           \* None, or <<exit code of align_scenes.py>>
    asm_pc,              \* position in assemble_video.py
    trim_log,            \* the trim_scene calls made, in order
    trimmed_files,       \* the list trimmed_files
    concat_input,        \* None, or <<video_files handed to concatenate_videos>>
    tmp_files,           \* temporary artifacts that exist on disk
    missing,             \* scene files the plan may name that are not on disk
    asm_exit,            \* None, or <<exit code of assemble_video.py>>
    output_file,         \* what is at the output path
    bounce_pc,           \* position in bounce.py
    bounce_exit,         \* None, or <<exit code of bounce.py>>
    beat_times,          \* timestamps read from the beats file, in file order
    beats_per_measure,
    measures_file,       \* None, or <<lines>> of the measures file on disk
    filter_pc,           \* position in filter_beats.py, then load_measures
    bounce_args,         \* bounce.py's options as typed, and which inputs exist
    bounce_cfg,          \* None, or <<the options as parsed>>
    step_log,            \* the run_step calls made, in order
    det_threshold,       \* detect_scenes.py's threshold, in thousandths
    det_duration,        \* duration of its video
    det_pc,              \* position in detect_scenes.py
    det_attempts,        \* the scene-filter runs made, in order
    scene_times,         \* the list scene_times
    clip_log,            \* the clip extractions run, in order
    det_exit,            \* None, or <<exit code of detect_scenes.py>>
    seg_duration,        \* create_interesting_segments' video_duration
    boring_segments,     \* its list of (start, end) pairs
    interesting,         \* None, or <<the list it returned>>
    running,             \* Spinner.running
    thread,              \* Spinner.thread: None, or <<index of the Thread>>
    threads,             \* position of every Thread created, in creation order
    caller_pc,           \* the caller: between calls, or inside stop()
    calls,               \* start() and stop() calls made
    terminal,            \* what the terminal line shows
    stop_returned,       \* stop() has returned and start() was not called since
    started_twice        \* start() was called on a spinner already started

plannerVars == <<measures, max_measures, scenes_dir, scene_files,
                 max_scene_duration, durations, scene_data, pc>>
codecVars == <<plan_file, scenes, warnings>>
muxVars == <<audio_len, video_len, audio_duration, video_duration, mux_cmd,
             output_len, mux_pc>>
asmRest == <<asm_pc, trim_log, trimmed_files, concat_input, tmp_files, missing,
             asm_exit, bounce_pc, bounce_exit>>
asmVars == <<asmRest, output_file>>
filterVars == <<beat_times, beats_per_measure, measures_file, filter_pc>>
bounceCfgVars == <<bounce_args, bounce_cfg, step_log>>
detectVars == <<det_threshold, det_duration, det_pc, det_attempts, scene_times,
                clip_log, det_exit>>
segVars == <<seg_duration, boring_segments, interesting>>
spinVars == <<running, thread, threads, caller_pc, calls, terminal,
             stop_returned, started_twice>>
laterVars == <<detectVars, segVars, spinVars>>
extraVars == <<filterVars, bounceCfgVars, laterVars>>
coreVars == <<plannerVars, codecVars, muxVars, exit_code, asmVars>>
besidesDetect == <<coreVars, filterVars, bounceCfgVars, segVars, spinVars>>
besidesSegments == <<coreVars, filterVars, bounceCfgVars, detectVars, spinVars>>
besidesSpinner == <<coreVars, filterVars, bounceCfgVars, detectVars, segVars>>
vars == <<coreVars, extraVars>>

\* ------------------------------------------------ align_scenes.py
RECURSIVE ScanMeasures(_, _, _, _)
ScanMeasures(target_time, ms, i, best) ==
    IF i > Len(ms) THEN best
    ELSE IF ms[i] <= target_time
         THEN ScanMeasures(target_time, ms, i + 1,
                           [index |-> Some(i - 1), time |-> Some(ms[i])])
         ELSE best

ScanStrict(target_time, ms) ==
    LET below == {i \in 1..Len(ms) : \A j \in 1..i : ms[j] < target_time}
    IN  IF below = {} THEN [index |-> None, time |-> None]
        ELSE LET i == CHOOSE i \in below : \A j \in below : j <= i
             IN  [index |-> Some(i - 1), time |-> Some(ms[i])]

\* forward scan that stops at the first measure exceeding the target;
\* index is 0-based as in Python
find_closest_measure_before(target_time, ms) ==
    ScanMeasures(target_time, ms, 1, [index |-> None, time |-> None])

RECURSIVE SortedSeq(_)
SortedSeq(S) ==
    IF S = {} THEN <<>>
    ELSE LET m == CHOOSE m \in S : \A x \in S : m <= x
         IN  <<m>> \o SortedSeq(S \ {m})

RECURSIVE ReverseSortedSeq(_)
ReverseSortedSeq(S) ==
    IF S = {} THEN <<>>
    ELSE LET m == CHOOSE m \in S : \A x \in S : m >= x
         IN  <<m>> \o ReverseSortedSeq(S \ {m})

\* sorted(Path(scenes_dir).glob("scene_*.mp4"))
ListSceneFiles(dir) == SortedSeq(dir)

MeasureIntervals(ms) == [i \in 1..(Len(ms) - 1) |-> ms[i + 1] - ms[i]]

AvgMeasureDuration(ms) ==
    RoundDiv(SumSeq(MeasureIntervals(ms)), Len(MeasureIntervals(ms)))

\* the dictionary built for one entry, from the scan's result
SceneInfo(file, part, total_parts, start_offset, span, found) ==
    LET hit == found.time # None
        trim_duration == IF hit THEN Val(found.time) ELSE span
        time_lost == IF hit THEN span - Val(found.time) ELSE 0
        \* "closest_measure_idx = 0" in the else branch
        closest_measure_idx == IF hit THEN found.index ELSE Some(0)
    IN  [file |-> file,
         part |-> part,
         total_parts |-> total_parts,
         start_offset |-> start_offset,
         original_duration |-> span,
         trim_to |-> trim_duration,
         time_lost |-> time_lost,
         closest_measure |-> IF closest_measure_idx # None
                             THEN Val(closest_measure_idx) + 1 ELSE 0,
         measure_time |-> IF hit THEN Val(found.time) ELSE 0]

WholeSceneNoPlusOne(file, duration, ms) ==
    LET e == SceneInfo(file, 1, 1, 0, duration,
                       find_closest_measure_before(duration, ms))
    IN  [e EXCEPT !.closest_measure = e.closest_measure - 1]

\* the else branch: the scene is one part
WholeSceneEntry(file, duration, ms) ==
    SceneInfo(file, 1, 1, 0, duration, find_closest_measure_before(duration, ms))

\* one part of a split scene; part is 0-based as in the loop
SplitPartEntry(file, part, num_parts, duration, msd, ms) ==
    LET start_time == part * msd
        end_time == Min((part + 1) * msd, duration)
        part_duration == end_time - start_time
    IN  SceneInfo(file, part + 1, num_parts, start_time, part_duration,
                  find_closest_measure_before(part_duration, ms))

NumPartsNoPlusOne(duration, msd) == TruncDiv(duration, msd)

NumParts(duration, msd) == TruncDiv(duration, msd) + 1

\* the if branch: every part of a scene longer than max_scene_duration
SplitSceneEntries(file, duration, msd, ms) ==
    LET num_parts == NumParts(duration, msd)
    IN  [p \in 1..num_parts |->
            SplitPartEntry(file, p - 1, num_parts, duration, msd, ms)]

\* the plan record writer (the "with open(output_file, 'w')" block)
Field(k, v) == [k |-> k, v |-> v]
\* f"{x:.6f}": the nearest multiple of a microsecond, as a count of them
Format6(x) == RoundDiv(x, SubTicks)

CommentLine == <<Field("hash", 0)>>
\* "# Format: scene_file, part, ..." holds eight commas
FormatLine == <<Field("hash", 0)>> \o [i \in 1..8 |-> Field("word", i)]

HeaderLines(mm) ==
    <<CommentLine, CommentLine>>
    \o (IF Truthy(mm) THEN <<CommentLine>> ELSE <<>>)
    \o <<CommentLine, FormatLine, CommentLine>>

PlanLine(scene) ==
    <<Field("name", scene.file),
      Field("int", scene.part),
      Field("int", scene.total_parts),
      Field("real", Format6(scene.start_offset)),
      Field("real", Format6(scene.original_duration)),
      Field("real", Format6(scene.trim_to)),
      Field("int", scene.closest_measure),
      Field("real", Format6(scene.measure_time)),
      Field("real", Format6(scene.time_lost))>>

PlanLines(mm, data) == HeaderLines(mm) \o [i \in 1..Len(data) |-> PlanLine(data[i])]

\* ------------------------------------------------ assemble_video.py
\* int(text) accepts digits only; float(text) accepts both spellings
IsIntText(f) == f.k = "int"
IsFloatText(f) == f.k \in {"int", "real"}
ParseInt(f) == f.v
ParseFloat(f) == IF f.k = "int" THEN f.v * Sec ELSE f.v * SubTicks

NineFieldsOk(parts) ==
    /\ IsIntText(parts[2]) /\ IsIntText(parts[3])
    /\ IsFloatText(parts[4]) /\ IsFloatText(parts[5]) /\ IsFloatText(parts[6])
    /\ IsIntText(parts[7])
    /\ IsFloatText(parts[8]) /\ IsFloatText(parts[9])

NineFieldsSwapped(parts) ==
    [file |-> parts[1],
     part |-> ParseInt(parts[2]),
     total_parts |-> ParseInt(parts[3]),
     start_offset |-> ParseFloat(parts[4]),
     original_duration |-> ParseFloat(parts[6]),
     trim_to |-> ParseFloat(parts[5]),
     measure_number |-> ParseInt(parts[7]),
     measure_time |-> ParseFloat(parts[8]),
     time_lost |-> ParseFloat(parts[9])]

\* "if len(parts) >= 9": the new format
NineFields(parts) ==
    [file |-> parts[1],
     part |-> ParseInt(parts[2]),
     total_parts |-> ParseInt(parts[3]),
     start_offset |-> ParseFloat(parts[4]),
     original_duration |-> ParseFloat(parts[5]),
     trim_to |-> ParseFloat(parts[6]),
     measure_number |-> ParseInt(parts[7]),
     measure_time |-> ParseFloat(parts[8]),
     time_lost |-> ParseFloat(parts[9])]

SixFieldsOk(parts) ==
    /\ IsFloatText(parts[2]) /\ IsFloatText(parts[3])
    /\ IsIntText(parts[4])
    /\ IsFloatText(parts[5]) /\ IsFloatText(parts[6])

SixFieldsPartZero(parts) ==
    [file |-> parts[1],
     part |-> 0,
     total_parts |-> 1,
     start_offset |-> 0,
     original_duration |-> ParseFloat(parts[2]),
     trim_to |-> ParseFloat(parts[3]),
     measure_number |-> ParseInt(parts[4]),
     measure_time |-> ParseFloat(parts[5]),
     time_lost |-> ParseFloat(parts[6])]

\* "elif len(parts) >= 6": the old format
SixFields(parts) ==
    [file |-> parts[1],
     part |-> 1,
     total_parts |-> 1,
     start_offset |-> 0,
     original_duration |-> ParseFloat(parts[2]),
     trim_to |-> ParseFloat(parts[3]),
     measure_number |-> ParseInt(parts[4]),
     measure_time |-> ParseFloat(parts[5]),
     time_lost |-> ParseFloat(parts[6])]

\* one pass of the reader's loop: the entry appended (None when the line
\* is skipped) and whether the except branch printed a warning
LoadLine(line) ==
    IF line = <<>> \/ line[1].k = "hash"
    THEN [entry |-> None, warned |-> FALSE]
    ELSE IF Len(line) >= 9
    THEN IF NineFieldsOk(line)
         THEN [entry |-> Some(NineFields(line)), warned |-> FALSE]
         ELSE [entry |-> None, warned |-> TRUE]
    ELSE IF Len(line) >= 6
    THEN IF SixFieldsOk(line)
         THEN [entry |-> Some(SixFields(line)), warned |-> FALSE]
         ELSE [entry |-> None, warned |-> TRUE]
    ELSE [entry |-> None, warned |-> FALSE]

RECURSIVE load_scene_plan(_)
load_scene_plan(lines) ==
    IF lines = <<>> THEN [scenes |-> <<>>, warnings |-> 0]
    ELSE LET r == LoadLine(lines[1])
             rest == load_scene_plan(Tail(lines))
         IN  [scenes |-> r.entry \o rest.scenes,
              warnings |-> (IF r.warned THEN 1 ELSE 0) + rest.warnings]

\* add_audio: the mux command and what the transcoder makes of it
Tolerance == Sec \div 10

MaxMuxSteps == 5
MuxDurationSet == {T(10) + k * (Tolerance \div 2) : k \in 0..MaxMuxSteps}

\* "if video_duration > audio_duration + 0.1": -t, re-encode
TrimCmd(a) == [t |-> Some(a), vcodec |-> "libx264", shortest |-> FALSE]
CopyCmdNoShortest == [t |-> None, vcodec |-> "copy", shortest |-> FALSE]
\* else: copy the video, -shortest
CopyCmd == [t |-> None, vcodec |-> "copy", shortest |-> TRUE]

\* duration of the file ffmpeg writes: the longest mapped stream, the
\* shortest one under -shortest, and never more than the -t limit
MuxedDuration(cmd, v, a) ==
    LET streams == IF cmd.shortest THEN Min(v, a) ELSE Max(v, a)
    IN  IF cmd.t # None THEN Min(streams, Val(cmd.t)) ELSE streams

\* ---------------------------------------------------------- actions
PlannerIdle ==
    /\ measures = <<>> /\ max_measures = None /\ scenes_dir = {}
    /\ scene_files = None /\ max_scene_duration = None
    /\ durations = <<>> /\ scene_data = <<>> /\ pc = "idle"
    /\ exit_code = None

MuxIdle ==
    /\ audio_len = 0 /\ video_len = 0
    /\ audio_duration = None /\ video_duration = None
    /\ mux_cmd = None /\ output_len = None /\ mux_pc = "idle"

AsmIdle ==
    /\ asm_pc = "idle" /\ trim_log = <<>> /\ trimmed_files = <<>>
    /\ concat_input = None /\ tmp_files = {} /\ missing = {}
    /\ asm_exit = None /\ output_file = "absent"
    /\ bounce_pc = "idle" /\ bounce_exit = None

FilterIdle ==
    /\ beat_times = <<>> /\ beats_per_measure = 4
    /\ measures_file = None /\ filter_pc = "idle"

NoOptions ==
    [scene_threshold |-> None, beats_per_measure |-> None,
     max_scene_measures |-> None, audio_exists |-> TRUE, video_exists |-> TRUE]

BounceIdle == bounce_args = NoOptions /\ bounce_cfg = None /\ step_log = <<>>

DetectIdle ==
    /\ det_threshold = 300 /\ det_duration = 0 /\ det_pc = "idle"
    /\ det_attempts = <<>> /\ scene_times = <<>> /\ clip_log = <<>>
    /\ det_exit = None

SegmentsIdle == seg_duration = 0 /\ boring_segments = <<>> /\ interesting = None

SpinnerIdle ==
    /\ running = FALSE /\ thread = None /\ threads = <<>>
    /\ caller_pc = "idle" /\ calls = 0 /\ terminal = "empty"
    /\ stop_returned = FALSE /\ started_twice = FALSE

LaterIdle == DetectIdle /\ SegmentsIdle /\ SpinnerIdle

ExtraIdle == FilterIdle /\ BounceIdle /\ LaterIdle

\* main of align_scenes.py: the arguments go to the planner as parsed
MainCallsPlanner ==
    /\ pc = "main"
    /\ pc' = "start"
    /\ UNCHANGED <<measures, max_measures, scenes_dir, scene_files,
                   max_scene_duration, durations, scene_data, codecVars, muxVars,
                   exit_code, asmVars, extraVars>>

\* the planner returned (a plan, or None for no scene files): "Success!"
MainSuccess ==
    /\ pc \in {"returned", "returned_none"} /\ exit_code = None
    /\ exit_code' = Some(0)
    /\ UNCHANGED <<plannerVars, codecVars, muxVars, asmVars, extraVars>>

\* "except Exception: ... sys.exit(1)"
MainError ==
    /\ pc = "raised" /\ exit_code = None
    /\ exit_code' = Some(1)
    /\ UNCHANGED <<plannerVars, codecVars, muxVars, asmVars, extraVars>>

\* "if not scene_files: return"
NoSceneFiles ==
    /\ pc = "start"
    /\ ListSceneFiles(scenes_dir) = <<>>
    /\ scene_files' = Some(ListSceneFiles(scenes_dir))
    /\ pc' = "returned_none"
    /\ UNCHANGED <<measures, max_measures, scenes_dir, max_scene_duration,
                   durations, scene_data, codecVars, muxVars, exit_code, asmVars, extraVars>>

FoundSceneFiles ==
    /\ pc = "start"
    /\ ListSceneFiles(scenes_dir) # <<>>
    /\ scene_files' = Some(ListSceneFiles(scenes_dir))
    /\ pc' = "max_duration"
    /\ UNCHANGED <<measures, max_measures, scenes_dir, max_scene_duration,
                   durations, scene_data, codecVars, muxVars, exit_code, asmVars, extraVars>>

\* "if len(measures) > 1 and max_measures:"
ComputeMaxSceneDuration ==
    /\ pc = "max_duration"
    /\ Len(measures) > 1 /\ Truthy(max_measures)
    /\ max_scene_duration' = Some(Val(max_measures) * AvgMeasureDuration(measures))
    /\ pc' = "loop"
    /\ UNCHANGED <<measures, max_measures, scenes_dir, scene_files,
                   durations, scene_data, codecVars, muxVars, exit_code, asmVars, extraVars>>

SkipMaxSceneDuration ==
    /\ pc = "max_duration"
    /\ ~(Len(measures) > 1 /\ Truthy(max_measures))
    /\ pc' = "loop"
    /\ UNCHANGED <<measures, max_measures, scenes_dir, scene_files,
                   max_scene_duration, durations, scene_data, codecVars, muxVars, exit_code, asmVars, extraVars>>

InLoop == pc = "loop" /\ Len(durations) < Len(Val(scene_files))
NextFile == Val(scene_files)[Len(durations) + 1]

\* "if max_measures and duration > max_scene_duration" reads a local that
\* was never bound: UnboundLocalError
AnalyzeSceneUnbound ==
    /\ InLoop
    /\ Truthy(max_measures) /\ max_scene_duration = None
    /\ \E duration \in DurationSet : durations' = Append(durations, duration)
    /\ pc' = "raised"
    /\ UNCHANGED <<measures, max_measures, scenes_dir, scene_files,
                   max_scene_duration, scene_data, codecVars, muxVars, exit_code, asmVars, extraVars>>

AnalyzeSceneSplit ==
    /\ InLoop
    /\ Truthy(max_measures) /\ max_scene_duration # None
    /\ \E duration \in DurationSet :
        /\ duration > Val(max_scene_duration)
        /\ durations' = Append(durations, duration)
        /\ scene_data' = scene_data \o
               SplitSceneEntries(NextFile, duration, Val(max_scene_duration), measures)
    /\ UNCHANGED <<measures, max_measures, scenes_dir, scene_files,
                   max_scene_duration, pc, codecVars, muxVars, exit_code, asmVars, extraVars>>

AnalyzeSceneWhole ==
    /\ InLoop
    /\ \E duration \in DurationSet :
        /\ \/ ~Truthy(max_measures)
           \/ max_scene_duration # None /\ ~(duration > Val(max_scene_duration))
        /\ durations' = Append(durations, duration)
        /\ scene_data' = Append(scene_data, WholeSceneEntry(NextFile, duration, measures))
    /\ UNCHANGED <<measures, max_measures, scenes_dir, scene_files,
                   max_scene_duration, pc, codecVars, muxVars, exit_code, asmVars, extraVars>>

\* the with-open block that writes the plan
SavePlan ==
    /\ pc = "loop" /\ Len(durations) = Len(Val(scene_files))
    /\ plan_file' = Some(PlanLines(max_measures, scene_data))
    /\ pc' = "summary"
    /\ UNCHANGED <<measures, max_measures, scenes_dir, scene_files,
                   max_scene_duration, durations, scene_data, scenes, warnings,
                   muxVars, exit_code, asmVars, extraVars>>

TotalOriginal == SumSeq([i \in 1..Len(scene_data) |-> scene_data[i].original_duration])

\* total_lost/total_original*100, then "return scene_data"
Summary ==
    /\ pc = "summary"
    /\ TotalOriginal # 0
    /\ pc' = "returned"
    /\ UNCHANGED <<measures, max_measures, scenes_dir, scene_files,
                   max_scene_duration, durations, scene_data, codecVars, muxVars, exit_code, asmVars, extraVars>>

\* ZeroDivisionError in the summary
SummaryZeroDivision ==
    /\ pc = "summary"
    /\ TotalOriginal = 0
    /\ pc' = "raised"
    /\ UNCHANGED <<measures, max_measures, scenes_dir, scene_files,
                   max_scene_duration, durations, scene_data, codecVars, muxVars, exit_code, asmVars, extraVars>>

\* assemble_video.py reads the plan record that is on disk
LoadScenePlan ==
    /\ pc = "idle" \/ exit_code # None
    /\ asm_pc = "start" \/ (asm_pc = "idle" /\ bounce_pc = "idle")
    /\ plan_file # None /\ scenes = None
    /\ scenes' = Some(load_scene_plan(Val(plan_file)).scenes)
    /\ warnings' = load_scene_plan(Val(plan_file)).warnings
    /\ UNCHANGED <<plannerVars, plan_file, muxVars, exit_code, asmVars, extraVars>>

\* add_audio
ProbeAudio ==
    /\ mux_pc = "probe_audio"
    /\ audio_duration' = Some(audio_len)
    /\ mux_pc' = "probe_video"
    /\ UNCHANGED <<plannerVars, codecVars, exit_code, asmVars, audio_len, video_len, video_duration,
                   mux_cmd, output_len, extraVars>>

ProbeVideo ==
    /\ mux_pc = "probe_video"
    /\ video_duration' = Some(video_len)
    /\ mux_pc' = "command"
    /\ UNCHANGED <<plannerVars, codecVars, exit_code, asmVars, audio_len, video_len, audio_duration,
                   mux_cmd, output_len, extraVars>>

BuildTrimCmd ==
    /\ mux_pc = "command"
    /\ Val(video_duration) > Val(audio_duration) + Tolerance
    /\ mux_cmd' = Some(TrimCmd(Val(audio_duration)))
    /\ mux_pc' = "run"
    /\ UNCHANGED <<plannerVars, codecVars, exit_code, asmVars, audio_len, video_len, audio_duration,
                   video_duration, output_len, extraVars>>

BuildCopyCmd ==
    /\ mux_pc = "command"
    /\ ~(Val(video_duration) > Val(audio_duration) + Tolerance)
    /\ mux_cmd' = Some(CopyCmd)
    /\ mux_pc' = "run"
    /\ UNCHANGED <<plannerVars, codecVars, exit_code, asmVars, audio_len, video_len, audio_duration,
                   video_duration, output_len, extraVars>>

\* subprocess.run(cmd, capture_output=True, check=True)
RunMux ==
    /\ mux_pc = "run"
    /\ output_len' = Some(MuxedDuration(Val(mux_cmd), video_len, audio_len))
    /\ output_file' = "final"
    /\ mux_pc' = "done"
    /\ UNCHANGED <<plannerVars, codecVars, exit_code, asmRest, audio_len, video_len, audio_duration,
                   video_duration, mux_cmd, extraVars>>

\* check=True on ffprobe: CalledProcessError leaves add_audio
ProbeAudioRaises ==
    /\ mux_pc = "probe_audio"
    /\ mux_pc' = "raised"
    /\ UNCHANGED <<plannerVars, codecVars, exit_code, asmVars, audio_len, video_len,
                   audio_duration, video_duration, mux_cmd, output_len, extraVars>>

ProbeVideoRaises ==
    /\ mux_pc = "probe_video"
    /\ mux_pc' = "raised"
    /\ UNCHANGED <<plannerVars, codecVars, exit_code, asmVars, audio_len, video_len,
                   audio_duration, video_duration, mux_cmd, output_len, extraVars>>

\* ffmpeg -y ... output_path exits non-zero: it had opened the output
\* path for writing, or had not
RunMuxRaises ==
    /\ mux_pc = "run"
    /\ output_file' \in {output_file, "partial"}
    /\ mux_pc' = "raised"
    /\ UNCHANGED <<plannerVars, codecVars, exit_code, asmRest, audio_len, video_len,
                   audio_duration, video_duration, mux_cmd, output_len, extraVars>>

\* ------------------------------------------- assemble_video.py, main
TempDir == <<"temp_dir", 0>>
TrimmedPath(i) == <<"trimmed", i>>
ConcatenatedPath == <<"concatenated", 0>>
ConcatFile == <<"concat_list", 0>>
WorkDir == <<"work_dir", 0>>

\* leaving "with tempfile.TemporaryDirectory()": the directory and all in it
LeaveTempDir(files) ==
    {f \in files : f[1] \notin {"temp_dir", "trimmed", "concatenated"}}

\* main: "if not os.path.exists(plan_file): ... sys.exit(1)"
PlanFileNotFound ==
    /\ asm_pc = "start" /\ plan_file = None
    /\ asm_pc' = "exited"
    /\ asm_exit' = Some(1)
    /\ UNCHANGED <<plannerVars, codecVars, muxVars, exit_code, trim_log,
                   trimmed_files, concat_input, tmp_files, missing, output_file,
                   bounce_pc, bounce_exit, extraVars>>

\* the plan is loaded; "with tempfile.TemporaryDirectory() as temp_dir"
EnterTempDir ==
    /\ asm_pc = "start" /\ scenes # None
    /\ tmp_files' = tmp_files \cup {TempDir}
    /\ asm_pc' = "trim"
    /\ UNCHANGED <<plannerVars, codecVars, muxVars, exit_code, trim_log,
                   trimmed_files, concat_input, missing, asm_exit, output_file,
                   bounce_pc, bounce_exit, extraVars>>

TrimIndex == Len(trimmed_files) + 1
InTrimLoop == asm_pc = "trim" /\ TrimIndex <= Len(Val(scenes))

TrimRunSwapped(i, returncode) ==
    LET scene == Val(scenes)[i]
    IN  [scene_path |-> scene.file,
         ss |-> scene.trim_to,
         t |-> scene.start_offset,
         output_path |-> TrimmedPath(i),
         returncode |-> returncode]

\* the ffmpeg run of trim_scene for the i-th entry and its exit code
TrimRun(i, returncode) ==
    LET scene == Val(scenes)[i]
    IN  [scene_path |-> scene.file,
         ss |-> scene.start_offset,
         t |-> scene.trim_to,
         output_path |-> TrimmedPath(i),
         returncode |-> returncode]

\* trim_scene returns: ffmpeg exited 0, which needs the scene file
TrimSceneOk ==
    /\ InTrimLoop
    /\ Val(scenes)[TrimIndex].file.v \notin missing
    /\ trim_log' = Append(trim_log, TrimRun(TrimIndex, 0))
    /\ trimmed_files' = Append(trimmed_files, TrimmedPath(TrimIndex))
    /\ tmp_files' = tmp_files \cup {TrimmedPath(TrimIndex)}
    /\ UNCHANGED <<plannerVars, codecVars, muxVars, exit_code, asm_pc,
                   concat_input, missing, asm_exit, output_file,
                   bounce_pc, bounce_exit, extraVars>>

TrimSceneSwallowed ==
    /\ InTrimLoop
    /\ trim_log' = Append(trim_log, TrimRun(TrimIndex, 1))
    /\ trimmed_files' = Append(trimmed_files, TrimmedPath(TrimIndex))
    /\ UNCHANGED <<plannerVars, codecVars, muxVars, exit_code, asm_pc, tmp_files,
                   concat_input, missing, asm_exit, output_file,
                   bounce_pc, bounce_exit, extraVars>>

\* check=True: CalledProcessError leaves the loop, the with block and
\* assemble_video, and main exits 1
TrimSceneRaises ==
    /\ InTrimLoop
    /\ trim_log' = Append(trim_log, TrimRun(TrimIndex, 1))
    /\ tmp_files' = LeaveTempDir(tmp_files)
    /\ asm_pc' = "exited"
    /\ asm_exit' = Some(1)
    /\ UNCHANGED <<plannerVars, codecVars, muxVars, exit_code, trimmed_files,
                   concat_input, missing, output_file, bounce_pc, bounce_exit, extraVars>>

\* concatenate_videos: the concat list is written
WriteConcatFile ==
    /\ asm_pc = "trim" /\ TrimIndex > Len(Val(scenes))
    /\ concat_input' = Some(trimmed_files)
    /\ tmp_files' = tmp_files \cup {ConcatFile}
    /\ asm_pc' = "concat"
    /\ UNCHANGED <<plannerVars, codecVars, muxVars, exit_code, trim_log,
                   trimmed_files, missing, asm_exit, output_file,
                   bounce_pc, bounce_exit, extraVars>>

\* duration of the concatenated video: the trims laid end to end
ConcatenatedLen ==
    SumSeq([i \in 1..Len(trim_log) |-> trim_log[i].t])

\* ffmpeg -f concat exits 0, which needs a list that names a file;
\* "finally: os.unlink(concat_file)"; add_audio is entered
ConcatenateVideosOk ==
    /\ asm_pc = "concat"
    /\ Val(concat_input) # <<>>
    /\ tmp_files' = (tmp_files \ {ConcatFile}) \cup {ConcatenatedPath}
    /\ video_len' = ConcatenatedLen
    /\ mux_pc' = "probe_audio"
    /\ asm_pc' = "add_audio"
    /\ UNCHANGED <<plannerVars, codecVars, exit_code, trim_log, trimmed_files,
                   concat_input, missing, asm_exit, output_file, bounce_pc,
                   bounce_exit, audio_len, audio_duration, video_duration,
                   mux_cmd, output_len, extraVars>>

ConcatenateVideosKeepsList ==
    /\ asm_pc = "concat"
    /\ tmp_files' = LeaveTempDir(tmp_files)
    /\ asm_pc' = "exited"
    /\ asm_exit' = Some(1)
    /\ UNCHANGED <<plannerVars, codecVars, muxVars, exit_code, trim_log,
                   trimmed_files, concat_input, missing, output_file,
                   bounce_pc, bounce_exit, extraVars>>

\* ffmpeg -f concat exits non-zero: the finally clause, then as above
ConcatenateVideosRaises ==
    /\ asm_pc = "concat"
    /\ tmp_files' = LeaveTempDir(tmp_files \ {ConcatFile})
    /\ asm_pc' = "exited"
    /\ asm_exit' = Some(1)
    /\ UNCHANGED <<plannerVars, codecVars, muxVars, exit_code, trim_log,
                   trimmed_files, concat_input, missing, output_file,
                   bounce_pc, bounce_exit, extraVars>>

\* add_audio returned: the with block ends
AddAudioReturns ==
    /\ asm_pc = "add_audio" /\ mux_pc = "done"
    /\ tmp_files' = LeaveTempDir(tmp_files)
    /\ asm_pc' = "report"
    /\ UNCHANGED <<plannerVars, codecVars, muxVars, exit_code, trim_log,
                   trimmed_files, concat_input, missing, asm_exit, output_file,
                   bounce_pc, bounce_exit, extraVars>>

\* add_audio raised CalledProcessError
AddAudioRaises ==
    /\ asm_pc = "add_audio" /\ mux_pc = "raised"
    /\ tmp_files' = LeaveTempDir(tmp_files)
    /\ asm_pc' = "exited"
    /\ asm_exit' = Some(1)
    /\ UNCHANGED <<plannerVars, codecVars, muxVars, exit_code, trim_log,
                   trimmed_files, concat_input, missing, output_file,
                   bounce_pc, bounce_exit, extraVars>>

\* getsize and the duration probe of the output, then the summary
ReportOk ==
    /\ asm_pc = "report"
    /\ asm_pc' = "exited"
    /\ asm_exit' = Some(0)
    /\ UNCHANGED <<plannerVars, codecVars, muxVars, exit_code, trim_log,
                   trimmed_files, concat_input, tmp_files, missing, output_file,
                   bounce_pc, bounce_exit, extraVars>>

\* the unchecked ffprobe printed nothing: float('') raises ValueError
ReportRaises ==
    /\ asm_pc = "report"
    /\ asm_pc' = "exited"
    /\ asm_exit' = Some(1)
    /\ UNCHANGED <<plannerVars, codecVars, muxVars, exit_code, trim_log,
                   trimmed_files, concat_input, tmp_files, missing, output_file,
                   bounce_pc, bounce_exit, extraVars>>

\* ---------------------------------------------------- bounce.py, main
NextStep(step) ==
    CASE step = "step1" -> "step2"
      [] step = "step2" -> "step3"
      [] step = "step3" -> "step4"
      [] step = "step4" -> "step5"

StepNumber(step) ==
    CASE step = "step1" -> 1
      [] step = "step2" -> 2
      [] step = "step3" -> 3
      [] step = "step4" -> 4
      [] step = "step5" -> 5

\* "scene_threshold = float(...)", in tenths; 0.3 when absent or on ValueError
ParseSceneThreshold(arg) ==
    IF arg # None /\ IsFloatText(Val(arg))
    THEN (IF Val(arg).k = "int" THEN Val(arg).v * 10 ELSE Val(arg).v)
    ELSE 3

\* "beats_per_measure = int(...)"; 4 when absent or on ValueError
ParseBeatsPerMeasure(arg) ==
    IF arg # None /\ IsIntText(Val(arg)) THEN Val(arg).v ELSE 4

\* "max_scene_measures = int(...)"; None when absent or on ValueError
ParseMaxSceneMeasures(arg) ==
    IF arg # None /\ IsIntText(Val(arg)) THEN Some(Val(arg).v) ELSE None

\* the options as the loop over sys.argv[3:] leaves them
ParseOptions(args) ==
    [scene_threshold |-> ParseSceneThreshold(args.scene_threshold),
     beats_per_measure |-> ParseBeatsPerMeasure(args.beats_per_measure),
     max_scene_measures |-> ParseMaxSceneMeasures(args.max_scene_measures)]

\* what a step's command line takes from the options: str(beats_per_measure),
\* str(scene_threshold), and max_scene_measures "if max_scene_measures:"
StepArg(step, cfg) ==
    CASE step = 2 -> <<cfg.beats_per_measure>>
      [] step = 3 -> <<cfg.scene_threshold>>
      [] step = 4 -> IF Truthy(cfg.max_scene_measures)
                     THEN cfg.max_scene_measures ELSE <<>>
      [] OTHER -> <<>>

\* run_step ran the step's command and saw its exit code
StepRun(step, returncode) ==
    [step |-> step, returncode |-> returncode, arg |-> StepArg(step, Val(bounce_cfg))]

\* "finally: ... shutil.rmtree(work_dir)"
RemoveWorkDir(files) == files \ {WorkDir}

\* "if not os.path.exists(audio_file)" / video_file: sys.exit(1)
InputFileNotFound ==
    /\ bounce_pc = "main"
    /\ ~(bounce_args.audio_exists /\ bounce_args.video_exists)
    /\ bounce_cfg' = Some(ParseOptions(bounce_args))
    /\ bounce_pc' = "exited"
    /\ bounce_exit' = Some(1)
    /\ UNCHANGED <<plannerVars, codecVars, muxVars, exit_code, asm_pc, trim_log,
                   trimmed_files, concat_input, tmp_files, missing, asm_exit,
                   output_file, laterVars, filterVars, bounce_args, step_log>>

\* the options are parsed, both inputs exist;
\* work_dir = tempfile.mkdtemp(prefix="bounce_")
MakeWorkDir ==
    /\ bounce_pc = "main"
    /\ bounce_args.audio_exists /\ bounce_args.video_exists
    /\ bounce_cfg' = Some(ParseOptions(bounce_args))
    /\ tmp_files' = tmp_files \cup {WorkDir}
    /\ bounce_pc' = "step1"
    /\ UNCHANGED <<plannerVars, codecVars, muxVars, exit_code, asm_pc, trim_log,
                   trimmed_files, concat_input, missing, asm_exit, output_file,
                   bounce_exit, laterVars, filterVars, bounce_args, step_log>>

\* run_step returns: beat detection, measure filtering, scene detection;
\* filter_beats.py cannot exit 0 on beats_per_measure = 0
RunStepOk ==
    /\ bounce_pc \in {"step1", "step2", "step3"}
    /\ ~(bounce_pc = "step2" /\ Val(bounce_cfg).beats_per_measure = 0)
    /\ step_log' = Append(step_log, StepRun(StepNumber(bounce_pc), Some(0)))
    /\ bounce_pc' = NextStep(bounce_pc)
    /\ UNCHANGED <<plannerVars, codecVars, muxVars, exit_code, asm_pc, trim_log,
                   trimmed_files, concat_input, tmp_files, missing, asm_exit,
                   output_file, bounce_exit, laterVars, filterVars, bounce_args, bounce_cfg>>

\* ------------------------------------------------------------ inputs
MaxPlanEntries == 2

ZeroTrimLine ==
    <<Field("name", 2), Field("int", 1), Field("int", 1), Field("real", 0),
      Field("real", 200000), Field("real", 0), Field("int", 1),
      Field("real", 0), Field("real", 200000)>>

PartLine ==
    <<Field("name", 1), Field("int", 2), Field("int", 3), Field("real", 1000000),
      Field("real", 1000000), Field("real", 500000), Field("int", 2),
      Field("real", 500000), Field("real", 500000)>>

WholeLine ==
    <<Field("name", 2), Field("int", 1), Field("int", 1), Field("real", 0),
      Field("real", 1700000), Field("real", 1500000), Field("int", 4),
      Field("real", 1500000), Field("real", 200000)>>

AsmLines == {PartLine, WholeLine, ZeroTrimLine}

RECURSIVE EntriesOfLen(_)
EntriesOfLen(n) ==
    IF n = 0 THEN {<<>>}
    ELSE {Append(f, l) : f \in EntriesOfLen(n - 1), l \in AsmLines}

AsmPlanFiles ==
    {HeaderLines(None) \o f : f \in UNION {EntriesOfLen(n) : n \in 0..MaxPlanEntries}}

AsmAudioSet == {T(5), T(30)}

\* run_step returns for align_scenes.py, which wrote a plan, or found no
\* scene files and wrote none
RunAlignStepOk ==
    /\ bounce_pc = "step4"
    /\ plan_file' \in {None} \cup {Some(f) : f \in AsmPlanFiles}
    /\ step_log' = Append(step_log, StepRun(4, Some(0)))
    /\ bounce_pc' = "step5"
    /\ UNCHANGED <<plannerVars, scenes, warnings, muxVars, exit_code, asm_pc,
                   trim_log, trimmed_files, concat_input, tmp_files, missing,
                   asm_exit, output_file, bounce_exit, laterVars, filterVars, bounce_args,
                   bounce_cfg>>

RunStepIgnoresFailure ==
    /\ bounce_pc \in {"step1", "step2", "step3", "step4"}
    /\ step_log' = Append(step_log, StepRun(StepNumber(bounce_pc), Some(1)))
    /\ bounce_pc' = NextStep(bounce_pc)
    /\ UNCHANGED <<plannerVars, codecVars, muxVars, exit_code, asm_pc, trim_log,
                   trimmed_files, concat_input, tmp_files, missing, asm_exit,
                   output_file, bounce_exit, laterVars, filterVars, bounce_args, bounce_cfg>>

\* a step exits non-zero: run_step raises RuntimeError, "except Exception"
\* calls sys.exit(1) and the finally clause removes work_dir
RunStepRaises ==
    /\ bounce_pc \in {"step1", "step2", "step3", "step4"}
    /\ step_log' = Append(step_log, StepRun(StepNumber(bounce_pc), Some(1)))
    /\ tmp_files' = RemoveWorkDir(tmp_files)
    /\ bounce_pc' = "exited"
    /\ bounce_exit' = Some(1)
    /\ UNCHANGED <<plannerVars, codecVars, muxVars, exit_code, asm_pc, trim_log,
                   trimmed_files, concat_input, missing, asm_exit, output_file,
                   laterVars, filterVars, bounce_args, bounce_cfg>>

\* step 5: run_step starts assemble_video.py
RunAssembly ==
    /\ bounce_pc = "step5"
    /\ step_log' = Append(step_log, StepRun(5, None))
    /\ asm_pc' = "start"
    /\ bounce_pc' = "assembling"
    /\ UNCHANGED <<plannerVars, codecVars, muxVars, exit_code, trim_log,
                   trimmed_files, concat_input, tmp_files, missing, asm_exit,
                   output_file, bounce_exit, laterVars, filterVars, bounce_args, bounce_cfg>>

\* assemble_video.py exited 0: the success report, then the finally clause
AssemblyStepOk ==
    /\ bounce_pc = "assembling" /\ asm_exit = Some(0)
    /\ step_log' = [step_log EXCEPT ![5].returncode = Some(0)]
    /\ tmp_files' = RemoveWorkDir(tmp_files)
    /\ plan_file' = None
    /\ bounce_pc' = "exited"
    /\ bounce_exit' = Some(0)
    /\ UNCHANGED <<plannerVars, scenes, warnings, muxVars, exit_code, asm_pc,
                   trim_log, trimmed_files, concat_input, missing, asm_exit,
                   output_file, laterVars, filterVars, bounce_args, bounce_cfg>>

\* assemble_video.py exited 1: RuntimeError, sys.exit(1), the finally clause
AssemblyStepRaises ==
    /\ bounce_pc = "assembling" /\ asm_exit = Some(1)
    /\ step_log' = [step_log EXCEPT ![5].returncode = Some(1)]
    /\ tmp_files' = RemoveWorkDir(tmp_files)
    /\ plan_file' = None
    /\ bounce_pc' = "exited"
    /\ bounce_exit' = Some(1)
    /\ UNCHANGED <<plannerVars, scenes, warnings, muxVars, exit_code, asm_pc,
                   trim_log, trimmed_files, concat_input, missing, asm_exit,
                   output_file, laterVars, filterVars, bounce_args, bounce_cfg>>

\* ------------------------------------------------------ filter_beats.py
\* "for i in range(0, len(beat_times), beats_per_measure)": the beats at
\* 0, B, 2B, ... below len; an empty range when the step is negative
MeasureTimes(beats, B) ==
    IF B < 0 THEN <<>>
    ELSE [k \in 1..((Len(beats) + B - 1) \div B) |-> beats[(k - 1) * B + 1]]

\* the data lines f"{i}, {measure_time:.6f}" after the five comment lines
MeasuresLines(measure_times) ==
    [i \in 1..Len(measure_times) |->
        [number |-> i, timestamp |-> Format6(measure_times[i])]]

\* float(parts[1]) of every data line, in file order
load_measures(lines) == [i \in 1..Len(lines) |-> lines[i].timestamp * SubTicks]

\* filter_beats_to_measures, from the filtering to the saved file
FilterBeatsToMeasures ==
    /\ filter_pc = "start"
    /\ beats_per_measure # 0
    /\ measures_file' = Some(MeasuresLines(MeasureTimes(beat_times, beats_per_measure)))
    /\ filter_pc' = "saved"
    /\ UNCHANGED <<coreVars, bounceCfgVars, laterVars, beat_times, beats_per_measure>>

\* range() with step 0 raises ValueError; main prints it and exits 1
FilterBeatsRaises ==
    /\ filter_pc = "start"
    /\ beats_per_measure = 0
    /\ filter_pc' = "raised"
    /\ UNCHANGED <<coreVars, bounceCfgVars, laterVars, beat_times, beats_per_measure, measures_file>>

\* "measures = load_measures(measures_file)" in align_scenes_to_measures
LoadMeasures ==
    /\ filter_pc = "saved"
    /\ measures' = load_measures(Val(measures_file))
    /\ filter_pc' = "loaded"
    /\ UNCHANGED <<max_measures, scenes_dir, scene_files, max_scene_duration,
                   durations, scene_data, pc, codecVars, muxVars, exit_code,
                   asmVars, bounceCfgVars, laterVars, beat_times, beats_per_measure, measures_file>>

\* ------------------------------------------------------ detect_scenes.py
\* "scene_times = sorted(set(scene_times))" over [0.0] and the pts_time
\* values above 0.1 that the run printed
SceneTimes(detected) == SortedSeq({0} \cup {t \in detected : t > T(1)})

\* one run of the scene filter: its threshold, exit code and result
FilterRun(threshold, returncode, detected) ==
    [threshold |-> threshold, returncode |-> returncode,
     scene_times |-> SceneTimes(detected)]

\* "if len(scene_times) <= 3"
FewScenes(times) == Len(times) <= 3

\* get_duration(video_file) returns
GetDuration ==
    /\ det_pc = "start"
    /\ det_pc' = "first"
    /\ UNCHANGED <<besidesDetect, det_threshold, det_duration, det_attempts,
                   scene_times, clip_log, det_exit>>

\* check=True on ffprobe, or a reply without a duration: main exits 1
GetDurationRaises ==
    /\ det_pc = "start"
    /\ det_pc' = "exited"
    /\ det_exit' = Some(1)
    /\ UNCHANGED <<besidesDetect, det_threshold, det_duration, det_attempts,
                   scene_times, clip_log>>

\* ------------------------------------------------------------ inputs
MaxCuts == 3

\* what one run of the scene filter prints: nothing, one cut after a
\* detection in the first tenth of a second, or MaxCuts cuts a second apart
CutSets == {{}, {T(1), T(10)}, {T(10 * i) : i \in 1..MaxCuts}}

DetectThresholds == {200, 250, 300, 1000}
VideoDurations == {T(10 * MaxCuts + 1), T(10 * MaxCuts + 10)}

\* "lower_threshold = threshold * 0.6"
LowerThreshold(threshold) == (threshold * 6) \div 10

\* the first run, at the threshold given
FirstDetection ==
    /\ det_pc = "first"
    /\ \E returncode \in {0, 1}, detected \in CutSets :
        /\ det_attempts' = <<FilterRun(det_threshold, returncode, detected)>>
        /\ scene_times' = SceneTimes(detected)
        /\ det_pc' = IF FewScenes(SceneTimes(detected)) THEN "lower" ELSE "returned"
    /\ UNCHANGED <<besidesDetect, det_threshold, det_duration, clip_log, det_exit>>

\* "if len(scene_times) <= 3": the run at threshold * 0.6
LowerThresholdDetection ==
    /\ det_pc = "lower"
    /\ \E returncode \in {0, 1}, detected \in CutSets :
        /\ det_attempts' = Append(det_attempts,
               FilterRun(LowerThreshold(det_threshold), returncode, detected))
        /\ scene_times' = SceneTimes(detected)
        /\ det_pc' = IF FewScenes(SceneTimes(detected)) THEN "sensitive" ELSE "returned"
    /\ UNCHANGED <<besidesDetect, det_threshold, det_duration, clip_log, det_exit>>

\* "if len(scene_times) <= 3" again: the run at 0.15; "return scene_times"
SensitiveDetection ==
    /\ det_pc = "sensitive"
    /\ \E returncode \in {0, 1}, detected \in CutSets :
        /\ det_attempts' = Append(det_attempts, FilterRun(150, returncode, detected))
        /\ scene_times' = SceneTimes(detected)
    /\ det_pc' = "returned"
    /\ UNCHANGED <<besidesDetect, det_threshold, det_duration, clip_log, det_exit>>

\* main: "if len(scene_times) <= 1: ... sys.exit(0)"
NoSceneChanges ==
    /\ det_pc = "returned"
    /\ Len(scene_times) <= 1
    /\ det_pc' = "exited"
    /\ det_exit' = Some(0)
    /\ UNCHANGED <<besidesDetect, det_threshold, det_duration, det_attempts,
                   scene_times, clip_log>>

\* split_video_into_scenes: the loop over scene_times
ClipIndex == Len(clip_log) + 1
InSplitLoop ==
    /\ det_pc = "returned"
    /\ Len(scene_times) > 1
    /\ ClipIndex <= Len(scene_times)

SceneStart(i) == scene_times[i]
SceneEnd(i) == IF i + 1 <= Len(scene_times) THEN scene_times[i + 1] ELSE det_duration

\* the i-th pass: the ffmpeg run and its exit code, None when skipped
ClipRun(i, returncode) ==
    [scene |-> i,
     ss |-> SceneStart(i),
     t |-> SceneEnd(i) - SceneStart(i),
     returncode |-> returncode]

\* "if scene_duration < 0.2: ... continue"
SkipShortScene ==
    /\ InSplitLoop
    /\ SceneEnd(ClipIndex) - SceneStart(ClipIndex) < T(2)
    /\ clip_log' = Append(clip_log, ClipRun(ClipIndex, None))
    /\ UNCHANGED <<besidesDetect, det_threshold, det_duration, det_pc,
                   det_attempts, scene_times, det_exit>>

\* "if result.returncode == 0: scene_files.append(scene_file)"
ExtractSceneOk ==
    /\ InSplitLoop
    /\ ~(SceneEnd(ClipIndex) - SceneStart(ClipIndex) < T(2))
    /\ clip_log' = Append(clip_log, ClipRun(ClipIndex, Some(0)))
    /\ UNCHANGED <<besidesDetect, det_threshold, det_duration, det_pc,
                   det_attempts, scene_times, det_exit>>

\* "else: print(Warning: Failed to create scene)": the loop goes on
ExtractSceneFails ==
    /\ InSplitLoop
    /\ ~(SceneEnd(ClipIndex) - SceneStart(ClipIndex) < T(2))
    /\ clip_log' = Append(clip_log, ClipRun(ClipIndex, Some(1)))
    /\ UNCHANGED <<besidesDetect, det_threshold, det_duration, det_pc,
                   det_attempts, scene_times, det_exit>>

SplitDone ==
    /\ det_pc = "returned"
    /\ Len(scene_times) > 1
    /\ ClipIndex > Len(scene_times)

\* the summary and the scene durations; main returns
DetectSummary ==
    /\ SplitDone
    /\ det_pc' = "exited"
    /\ det_exit' = Some(0)
    /\ UNCHANGED <<besidesDetect, det_threshold, det_duration, det_attempts,
                   scene_times, clip_log>>

\* get_duration(scene_file) of a created clip raises: main exits 1
DetectSummaryRaises ==
    /\ SplitDone
    /\ \E i \in 1..Len(clip_log) : clip_log[i].returncode = Some(0)
    /\ det_pc' = "exited"
    /\ det_exit' = Some(1)
    /\ UNCHANGED <<besidesDetect, det_threshold, det_duration, det_attempts,
                   scene_times, clip_log>>

\* ---------------------------------------------- detect_boring_segments.py
\* the order of Python tuples
TupleLeq(a, b) == a[1] < b[1] \/ (a[1] = b[1] /\ a[2] <= b[2])

\* sorted(boring_segments)
RECURSIVE SortedSegments(_)
SortedSegments(segs) ==
    IF segs = <<>> THEN <<>>
    ELSE LET i == CHOOSE i \in 1..Len(segs) :
                    \A j \in 1..Len(segs) : TupleLeq(segs[i], segs[j])
         IN  <<segs[i]>> \o
             SortedSegments(SubSeq(segs, 1, i - 1) \o SubSeq(segs, i + 1, Len(segs)))

\* the loop over the sorted segments from the k-th on
RECURSIVE ScanBoring(_, _, _, _)
ScanBoring(sorted, k, current_pos, found) ==
    IF k > Len(sorted) THEN [interesting |-> found, current_pos |-> current_pos]
    ELSE LET start == sorted[k][1]
             end == sorted[k][2]
         IN  ScanBoring(sorted, k + 1, end,
                        IF start > current_pos + Sec
                        THEN Append(found, <<current_pos, start>>)
                        ELSE found)

create_interesting_segments(video_duration_, boring) ==
    IF boring = <<>> THEN <<<<0, video_duration_>>>>
    ELSE LET r == ScanBoring(SortedSegments(boring), 1, 0, <<>>)
         IN  IF r.current_pos < video_duration_ - Sec
             THEN Append(r.interesting, <<r.current_pos, video_duration_>>)
             ELSE r.interesting

CreateInterestingSegments ==
    /\ interesting = None
    /\ interesting' = Some(create_interesting_segments(seg_duration, boring_segments))
    /\ UNCHANGED <<besidesSegments, seg_duration, boring_segments>>

\* ------------------------------------------------------------- spinner.py
\* The caller makes at most MaxCalls calls of start() and stop(); every
\* statement of the two methods and of _spin is a step of its own, so the
\* animation threads interleave with the caller between any two of them.
MaxCalls == 3

Alive(t) == threads[t] # "done"

\* start(): self.running = True
StartSetsRunning ==
    /\ caller_pc = "idle" /\ calls < MaxCalls
    /\ calls' = calls + 1
    /\ started_twice' = (started_twice \/ running)
    /\ running' = TRUE
    /\ stop_returned' = FALSE
    /\ caller_pc' = "start_thread"
    /\ UNCHANGED <<besidesSpinner, thread, threads, terminal>>

\* start(): a new Thread on _spin replaces self.thread and is started
StartThread ==
    /\ caller_pc = "start_thread"
    /\ threads' = Append(threads, "check")
    /\ thread' = Some(Len(threads) + 1)
    /\ caller_pc' = "idle"
    /\ UNCHANGED <<besidesSpinner, running, calls, terminal, stop_returned,
                   started_twice>>

\* _spin: the test of `while self.running`
SpinCheck(t) ==
    /\ threads[t] = "check"
    /\ threads' = [threads EXCEPT ![t] = IF running THEN "write" ELSE "done"]
    /\ UNCHANGED <<besidesSpinner, running, thread, caller_pc, calls, terminal,
                   stop_returned, started_twice>>

\* _spin: one frame is written, then the thread sleeps and tests again
SpinWrite(t) ==
    /\ threads[t] = "write"
    /\ terminal' = "frame"
    /\ threads' = [threads EXCEPT ![t] = "check"]
    /\ UNCHANGED <<besidesSpinner, running, thread, caller_pc, calls,
                   stop_returned, started_twice>>

\* stop(): self.running = False
StopClearsRunning ==
    /\ caller_pc = "idle" /\ calls < MaxCalls
    /\ calls' = calls + 1
    /\ running' = FALSE
    /\ caller_pc' = "join"
    /\ UNCHANGED <<besidesSpinner, thread, threads, terminal, stop_returned,
                   started_twice>>

\* stop(): self.thread.join() returns once that thread has ended; with no
\* thread there is nothing to wait for
StopJoin ==
    /\ caller_pc = "join"
    /\ thread # None => ~Alive(Val(thread))
    /\ caller_pc' = "clear"
    /\ UNCHANGED <<besidesSpinner, running, thread, threads, calls, terminal,
                   stop_returned, started_twice>>

\* stop(): the line is cleared and stop() returns
StopClearsLine ==
    /\ caller_pc = "clear"
    /\ terminal' = "cleared"
    /\ stop_returned' = TRUE
    /\ caller_pc' = "idle"
    /\ UNCHANGED <<besidesSpinner, running, thread, threads, calls,
                   started_twice>>

\* ---------------------------------------------------- specifications
\* the planner on every input, then the reader on the plan it wrote
Init ==
    /\ ExtraIdle
    /\ measures \in MeasureTracks
    /\ max_measures \in MaxMeasuresArgs
    /\ scenes_dir \in SceneDirs
    /\ scene_files = None /\ max_scene_duration = None
    /\ durations = <<>> /\ scene_data = <<>> /\ pc = "main"
    /\ exit_code = None
    /\ plan_file = None /\ scenes = None /\ warnings = 0
    /\ MuxIdle
    /\ AsmIdle

Next ==
    \/ MainCallsPlanner
    \/ MainSuccess
    \/ MainError
    \/ NoSceneFiles
    \/ FoundSceneFiles
    \/ ComputeMaxSceneDuration
    \/ SkipMaxSceneDuration
    \/ AnalyzeSceneUnbound
    \/ AnalyzeSceneSplit
    \/ AnalyzeSceneWhole
    \/ SavePlan
    \/ Summary
    \/ SummaryZeroDivision
    \/ LoadScenePlan

Spec == Init /\ [][Next]_vars

\* add_audio on every pair of stream durations
InitMux ==
    /\ ExtraIdle
    /\ PlannerIdle
    /\ AsmIdle
    /\ plan_file = None /\ scenes = None /\ warnings = 0
    /\ audio_len \in MuxDurationSet /\ video_len \in MuxDurationSet
    /\ audio_duration = None /\ video_duration = None
    /\ mux_cmd = None /\ output_len = None /\ mux_pc = "probe_audio"

NextMux ==
    \/ ProbeAudio
    \/ ProbeAudioRaises
    \/ ProbeVideo
    \/ ProbeVideoRaises
    \/ BuildTrimCmd
    \/ BuildCopyCmd
    \/ RunMux
    \/ RunMuxRaises

SpecMux == InitMux /\ [][NextMux]_vars

\* load_scene_plan on plan records that were written or edited by hand
MaxLines == 3

NineLine ==
    <<Field("name", 1), Field("int", 2), Field("int", 3), Field("real", 1000000),
      Field("real", 1000000), Field("real", 500000), Field("int", 2),
      Field("real", 500000), Field("real", 500000)>>
LegacyLineA ==
    <<Field("name", 1), Field("real", 1700000), Field("real", 1500000),
      Field("int", 4), Field("real", 1500000), Field("real", 200000)>>
\* a duration written without a fraction ("2") is still a float
LegacyLineB ==
    <<Field("name", 2), Field("int", 2), Field("real", 1000000),
      Field("int", 3), Field("real", 1000000), Field("real", 1000000)>>
LegacyBadNumber ==
    <<Field("name", 1), Field("real", 1700000), Field("word", 0),
      Field("int", 4), Field("real", 1500000), Field("real", 200000)>>
FiveFieldLine == SubSeq(LegacyLineA, 1, 5)
SevenFieldLine == LegacyLineA \o <<Field("word", 0)>>
TenFieldLine == NineLine \o <<Field("word", 0)>>

SampleLines ==
    {<<>>, CommentLine, NineLine, LegacyLineA, LegacyLineB, LegacyBadNumber,
     FiveFieldLine, SevenFieldLine, TenFieldLine}

RECURSIVE FilesOfLen(_)
FilesOfLen(n) ==
    IF n = 0 THEN {<<>>}
    ELSE {Append(f, l) : f \in FilesOfLen(n - 1), l \in SampleLines}

InitCodec ==
    /\ ExtraIdle
    /\ PlannerIdle
    /\ AsmIdle
    /\ MuxIdle
    /\ plan_file \in {Some(f) : f \in UNION {FilesOfLen(n) : n \in 0..MaxLines}}
    /\ scenes = None /\ warnings = 0

NextCodec == LoadScenePlan

SpecCodec == InitCodec /\ [][NextCodec]_vars

\* assemble_video.py on a plan file, an audio track and scene files
InitAssemble ==
    /\ ExtraIdle
    /\ PlannerIdle
    /\ plan_file \in {None} \cup {Some(f) : f \in AsmPlanFiles}
    /\ scenes = None /\ warnings = 0
    /\ audio_len \in AsmAudioSet /\ video_len = 0
    /\ audio_duration = None /\ video_duration = None
    /\ mux_cmd = None /\ output_len = None /\ mux_pc = "idle"
    /\ asm_pc = "start" /\ trim_log = <<>> /\ trimmed_files = <<>>
    /\ concat_input = None /\ tmp_files = {} /\ asm_exit = None
    /\ missing \in SUBSET {2}
    /\ output_file \in {"absent", "old"}
    /\ bounce_pc = "idle" /\ bounce_exit = None

NextAssemble ==
    \/ PlanFileNotFound
    \/ LoadScenePlan
    \/ EnterTempDir
    \/ TrimSceneOk
    \/ TrimSceneRaises
    \/ WriteConcatFile
    \/ ConcatenateVideosOk
    \/ ConcatenateVideosRaises
    \/ ProbeAudio
    \/ ProbeAudioRaises
    \/ ProbeVideo
    \/ ProbeVideoRaises
    \/ BuildTrimCmd
    \/ BuildCopyCmd
    \/ RunMux
    \/ RunMuxRaises
    \/ AddAudioReturns
    \/ AddAudioRaises
    \/ ReportOk
    \/ ReportRaises

SpecAssemble == InitAssemble /\ [][NextAssemble]_vars

\* bounce.py: the five steps in a working directory, the last one
\* assemble_video.py
\* the command lines: at most one option, or one input file missing
BounceArgSet ==
    {[NoOptions EXCEPT !.scene_threshold = Some(a)] :
        a \in {Field("real", 2), Field("real", 15), Field("word", 0)}}
    \cup {[NoOptions EXCEPT !.beats_per_measure = Some(a)] :
        a \in {Field("int", 3), Field("int", 0), Field("int", -1), Field("word", 0)}}
    \cup {[NoOptions EXCEPT !.max_scene_measures = Some(a)] :
        a \in {Field("int", 16), Field("int", 0), Field("int", -1), Field("word", 0)}}
    \cup {[NoOptions EXCEPT !.audio_exists = FALSE],
          [NoOptions EXCEPT !.video_exists = FALSE],
          NoOptions}

InitBounce ==
    /\ FilterIdle
    /\ LaterIdle
    /\ bounce_args \in BounceArgSet /\ bounce_cfg = None /\ step_log = <<>>
    /\ PlannerIdle
    /\ plan_file = None /\ scenes = None /\ warnings = 0
    /\ audio_len \in AsmAudioSet /\ video_len = 0
    /\ audio_duration = None /\ video_duration = None
    /\ mux_cmd = None /\ output_len = None /\ mux_pc = "idle"
    /\ asm_pc = "idle" /\ trim_log = <<>> /\ trimmed_files = <<>>
    /\ concat_input = None /\ tmp_files = {} /\ asm_exit = None
    /\ missing \in SUBSET {2}
    /\ output_file \in {"absent", "old"}
    /\ bounce_pc = "main" /\ bounce_exit = None

NextBounce ==
    \/ InputFileNotFound
    \/ MakeWorkDir
    \/ RunStepOk
    \/ RunAlignStepOk
    \/ RunStepRaises
    \/ RunAssembly
    \/ NextAssemble
    \/ AssemblyStepOk
    \/ AssemblyStepRaises

SpecBounce == InitBounce /\ [][NextBounce]_vars

\* filter_beats.py on a beats file, then load_measures on what it wrote
MaxBeats == 4
MaxBeatsPerMeasure == 3
\* two beats less than a microsecond apart, and half-second beats
BeatSet == {0, 4, T(5), T(10), T(15)}

RECURSIVE BeatsOfLen(_)
BeatsOfLen(n) ==
    IF n = 0 THEN {<<>>}
    ELSE {Append(f, b) : f \in BeatsOfLen(n - 1), b \in BeatSet}

InitFilter ==
    /\ BounceIdle
    /\ LaterIdle
    /\ PlannerIdle
    /\ plan_file = None /\ scenes = None /\ warnings = 0
    /\ MuxIdle
    /\ AsmIdle
    /\ beat_times \in UNION {BeatsOfLen(n) : n \in 0..MaxBeats}
    /\ beats_per_measure \in (-1)..MaxBeatsPerMeasure
    /\ measures_file = None
    /\ filter_pc = "start"

NextFilter == FilterBeatsToMeasures \/ FilterBeatsRaises \/ LoadMeasures

SpecFilter == InitFilter /\ [][NextFilter]_vars

\* detect_scenes.py on a video and a threshold
InitDetect ==
    /\ SegmentsIdle
    /\ SpinnerIdle
    /\ FilterIdle
    /\ BounceIdle
    /\ PlannerIdle
    /\ plan_file = None /\ scenes = None /\ warnings = 0
    /\ MuxIdle
    /\ AsmIdle
    /\ det_threshold \in DetectThresholds
    /\ det_duration \in VideoDurations
    /\ det_pc = "start"
    /\ det_attempts = <<>> /\ scene_times = <<>> /\ clip_log = <<>>
    /\ det_exit = None

NextDetect ==
    \/ GetDuration
    \/ GetDurationRaises
    \/ FirstDetection
    \/ LowerThresholdDetection
    \/ SensitiveDetection
    \/ NoSceneChanges
    \/ SkipShortScene
    \/ ExtractSceneOk
    \/ ExtractSceneFails
    \/ DetectSummary
    \/ DetectSummaryRaises

SpecDetect == InitDetect /\ [][NextDetect]_vars

\* create_interesting_segments on every list of boring segments
MaxSegments == 2
SegmentGrid == {0, 2 * Sec, 3 * Sec, 6 * Sec, 10 * Sec}
Segments == {<<a, b>> : a \in SegmentGrid, b \in SegmentGrid} \cap
            {p \in SegmentGrid \X SegmentGrid : p[1] < p[2]}

RECURSIVE SegmentsOfLen(_)
SegmentsOfLen(n) ==
    IF n = 0 THEN {<<>>}
    ELSE {Append(f, g) : f \in SegmentsOfLen(n - 1), g \in Segments}

InitSegments ==
    /\ FilterIdle
    /\ BounceIdle
    /\ DetectIdle
    /\ SpinnerIdle
    /\ PlannerIdle
    /\ plan_file = None /\ scenes = None /\ warnings = 0
    /\ MuxIdle
    /\ AsmIdle
    /\ seg_duration \in {5 * Sec, 10 * Sec}
    /\ boring_segments \in UNION {SegmentsOfLen(n) : n \in 0..MaxSegments}
    /\ interesting = None

NextSegments == CreateInterestingSegments

SpecSegments == InitSegments /\ [][NextSegments]_vars

\* a Spinner as constructed, its caller and its threads
InitSpinner ==
    /\ FilterIdle
    /\ BounceIdle
    /\ DetectIdle
    /\ SegmentsIdle
    /\ PlannerIdle
    /\ plan_file = None /\ scenes = None /\ warnings = 0
    /\ MuxIdle
    /\ AsmIdle
    /\ SpinnerIdle

NextSpinner ==
    \/ StartSetsRunning
    \/ StartThread
    \/ \E t \in 1..Len(threads) : SpinCheck(t)
    \/ \E t \in 1..Len(threads) : SpinWrite(t)
    \/ StopClearsRunning
    \/ StopJoin
    \/ StopClearsLine

SpecSpinner == InitSpinner /\ [][NextSpinner]_vars

\* ------------------------------------------------------------ claims
ExampleTrack == <<0, T(5), T(10), T(15), T(20)>>
PlanBuilt == pc \in {"summary", "returned"} \/ (pc = "raised" /\ plan_file # None)

\* the entries of the scene probed j-th, in plan order
EntriesOf(j) ==
    SelectSeq(scene_data, LAMBDA e : e.file = Val(scene_files)[j])

NoQualifyingMeasure(span) == measures = <<>> \/ span < measures[1]

\* C1: every plan entry whose source span reaches the first measure is
\* trimmed to the greatest measure not exceeding the span, records that
\* measure's 1-based position and time, and loses span - trim_to; the
\* 1.7 s scene against [0, 0.5, 1.0, 1.5, 2.0] without splitting gives one
\* entry trimmed to 1.5 at measure 4, losing 0.2.
C1_TrimToGreatestMeasure ==
    /\ \A k \in 1..Len(scene_data) :
        LET e == scene_data[k]
            span == e.original_duration
        IN  ~NoQualifyingMeasure(span) =>
              \E i \in 1..Len(measures) :
                /\ measures[i] <= span
                /\ \A j \in 1..Len(measures) :
                      measures[j] <= span => measures[j] <= measures[i]
                /\ e.trim_to = measures[i]
                /\ e.closest_measure = i
                /\ e.measure_time = e.trim_to
                /\ e.time_lost = span - e.trim_to
    /\ (/\ PlanBuilt
        /\ measures = ExampleTrack
        /\ ~Truthy(max_measures)
        /\ Cardinality(scenes_dir) = 1
        /\ durations = <<T(17)>>)
       => /\ Len(scene_data) = 1
          /\ scene_data[1].trim_to = T(15)
          /\ scene_data[1].closest_measure = 4
          /\ scene_data[1].time_lost = T(2)

C1_Witness ==
    /\ pc = "returned"
    /\ measures = ExampleTrack
    /\ max_measures = None
    /\ durations = <<T(17)>>
    /\ Len(scene_data) = 1
    /\ scene_data[1].trim_to = T(15)

ExhaustiveSearch(target_time, ms) ==
    LET le == {i \in 1..Len(ms) : ms[i] <= target_time}
    IN  IF le = {} THEN [index |-> None, time |-> None]
        ELSE LET i == CHOOSE i \in le : \A j \in le : ms[j] <= ms[i]
             IN  [index |-> Some(i - 1), time |-> Some(ms[i])]

ScanTargets ==
    DurationSet
    \cup {measures[i] + d : i \in 1..Len(measures), d \in {-1, 0, 1}}
    \cup {scene_data[k].original_duration : k \in 1..Len(scene_data)}

\* C2: on a non-empty strictly increasing measure track the forward scan
\* with early exit returns what a search of the whole track returns, the
\* greatest measure <= target, and a target equal to a measure timestamp
\* returns that measure.
C2_ScanEqualsExhaustive ==
    measures # <<>> =>
      /\ \A t \in ScanTargets :
            find_closest_measure_before(t, measures) = ExhaustiveSearch(t, measures)
      /\ \A i \in 1..Len(measures) :
            find_closest_measure_before(measures[i], measures)
              = [index |-> Some(i - 1), time |-> Some(measures[i])]

C2_Witness ==
    /\ Len(measures) >= 3
    /\ \E k \in 1..Len(scene_data) :
        /\ scene_data[k].original_duration = measures[3]
        /\ scene_data[k].trim_to = measures[3]
        /\ scene_data[k].closest_measure = 3

\* C3: every entry with no qualifying measure is untrimmed (trim_to equals
\* the source span, time_lost is 0), and under a valid configuration
\* (max_measures absent or positive) a scene shorter than the first
\* measure, and any scene when the track is empty, is in the plan once the
\* planner has handled it.
C3_ShortPartsKeptUntrimmed ==
    /\ \A k \in 1..Len(scene_data) :
        NoQualifyingMeasure(scene_data[k].original_duration) =>
          /\ scene_data[k].trim_to = scene_data[k].original_duration
          /\ scene_data[k].time_lost = 0
    /\ (max_measures = None \/ Val(max_measures) > 0) =>
          \A j \in 1..Len(durations) :
              NoQualifyingMeasure(durations[j]) => EntriesOf(j) # <<>>

\* C4: an entry with no qualifying measure records measure number 0 and
\* measure time 0.0, in the whole-scene branch and in the split branch.
C4_NoMeasureRecordsZero ==
    \A k \in 1..Len(scene_data) :
        NoQualifyingMeasure(scene_data[k].original_duration) =>
          /\ scene_data[k].closest_measure = 0
          /\ scene_data[k].measure_time = 0

CeilDiv(a, b) == (a + b - 1) \div b

\* C5: a scene of duration D split at a positive max_scene_duration M
\* (D > M) has exactly ceil(D/M) parts, whose source spans sum to D and
\* whose k-th part (k = 0, 1, ...) starts at k*M.
C5_SplitIntoCeilParts ==
    \A j \in 1..Len(durations) :
        (/\ Truthy(max_measures)
         /\ max_scene_duration # None
         /\ Val(max_scene_duration) > 0
         /\ durations[j] > Val(max_scene_duration))
        => LET parts == EntriesOf(j)
               M == Val(max_scene_duration)
           IN  /\ Len(parts) = CeilDiv(durations[j], M)
               /\ SumSeq([k \in 1..Len(parts) |-> parts[k].original_duration])
                    = durations[j]
               /\ \A k \in 1..Len(parts) : parts[k].start_offset = (k - 1) * M

ExampleSplit ==
    /\ PlanBuilt
    /\ measures = ExampleTrack
    /\ max_scene_duration = Some(T(10))
    /\ Cardinality(scenes_dir) = 1
    /\ durations = <<T(26)>>

FirstTwoParts ==
    /\ scene_data[1].part = 1
    /\ scene_data[1].start_offset = 0
    /\ scene_data[1].original_duration = T(10)
    /\ scene_data[1].trim_to = T(10)
    /\ scene_data[2].part = 2
    /\ scene_data[2].start_offset = T(10)
    /\ scene_data[2].original_duration = T(10)
    /\ scene_data[2].trim_to = T(10)

\* C6 as stated: the 2.6 s scene against [0, 0.5, 1.0, 1.5, 2.0] with
\* max_scene_duration 1.0 gives two parts, each of span 1.0 trimmed to 1.0.
C6_TwoParts ==
    ExampleSplit => Len(scene_data) = 2 /\ FirstTwoParts

\* C6 as amended: it gives three parts, the two of span 1.0 trimmed to 1.0
\* at offsets 0.0 and 1.0 and a third at offset 2.0 with span 0.6 trimmed
\* to 0.5; each part is aligned on its own span.
C6_ThreeParts ==
    ExampleSplit =>
      /\ Len(scene_data) = 3
      /\ FirstTwoParts
      /\ scene_data[3].part = 3
      /\ scene_data[3].start_offset = T(20)
      /\ scene_data[3].original_duration = T(6)
      /\ scene_data[3].trim_to = T(5)
      /\ \A k \in 1..3 : scene_data[k].total_parts = 3

C6_Witness == ExampleSplit /\ Len(scene_data) = 3 /\ pc = "returned"

\* the value a real has once written with six fractional digits
Nearest6(x) ==
    LET lo == (x \div SubTicks) * SubTicks
        hi == lo + SubTicks
    IN  IF x - lo < hi - x THEN lo
        ELSE IF x - lo > hi - x THEN hi
        ELSE IF (lo \div SubTicks) % 2 = 0 THEN lo ELSE hi

\* C7: the reader returns, for the N entries the planner wrote, exactly N
\* entries in the same order, with file, part, total_parts and measure
\* number equal and every real field equal to its six-digit written value;
\* the header lines contribute nothing.
C7_PlanRoundTrip ==
    (pc # "idle" /\ plan_file # None /\ scenes # None) =>
      /\ Len(Val(scenes)) = Len(scene_data)
      /\ \A k \in 1..Len(scene_data) :
          LET e == scene_data[k]
              l == Val(scenes)[k]
          IN  /\ l.file = Field("name", e.file)
              /\ l.part = e.part
              /\ l.total_parts = e.total_parts
              /\ l.measure_number = e.closest_measure
              /\ l.start_offset = Nearest6(e.start_offset)
              /\ l.original_duration = Nearest6(e.original_duration)
              /\ l.trim_to = Nearest6(e.trim_to)
              /\ l.measure_time = Nearest6(e.measure_time)
              /\ l.time_lost = Nearest6(e.time_lost)

C7_Witness ==
    /\ scenes # None /\ pc = "returned"
    /\ Len(Val(scenes)) >= 3
    /\ Cardinality({scene_data[k].file : k \in 1..Len(scene_data)}) = 2
    /\ \E k \in 1..Len(scene_data) :
        /\ scene_data[k].start_offset # Nearest6(scene_data[k].start_offset)
        /\ Val(scenes)[k].start_offset = Nearest6(scene_data[k].start_offset)

IsLegacyLine(line) ==
    /\ Len(line) = 6
    /\ line[1].k = "name"
    /\ \A i \in {2, 3, 5, 6} : line[i].k \in {"int", "real"}
    /\ line[4].k = "int"

Seconds(f) == IF f.k = "int" THEN f.v * MicroPerSec * SubTicks ELSE f.v * SubTicks

LegacyEntry(line) ==
    [file |-> line[1], part |-> 1, total_parts |-> 1, start_offset |-> 0,
     original_duration |-> Seconds(line[2]), trim_to |-> Seconds(line[3]),
     measure_number |-> line[4].v, measure_time |-> Seconds(line[5]),
     time_lost |-> Seconds(line[6])]

\* C8: a six-field line (scene, source span, trim_to, measure index,
\* measure time, time lost) is read as an entry with part 1, total_parts 1,
\* start_offset 0.0 and the other fields taken from the line in that order.
C8_LegacyLineDefaults ==
    scenes # None =>
      /\ \A i \in 1..Len(Val(plan_file)) :
            IsLegacyLine(Val(plan_file)[i]) =>
              \E k \in 1..Len(Val(scenes)) :
                  Val(scenes)[k] = LegacyEntry(Val(plan_file)[i])
      /\ (\A i \in 1..Len(Val(plan_file)) : IsLegacyLine(Val(plan_file)[i]))
            => Val(scenes) = [i \in 1..Len(Val(plan_file)) |->
                                 LegacyEntry(Val(plan_file)[i])]

C8_Witness ==
    /\ scenes # None
    /\ Val(plan_file) = <<CommentLine, LegacyLineA, LegacyLineB>>
    /\ Len(Val(scenes)) = 2
    /\ Val(scenes)[2].part = 1
    /\ Val(scenes)[2].original_duration = 2 * Sec

\* C9: the muxed output lasts min(V, A): for V > A + 0.1 the command limits
\* the duration to A and re-encodes the video, otherwise it copies the
\* video and stops at the shorter stream.
C9_OutputIsShorterStream ==
    mux_pc = "done" =>
      /\ Val(output_len) = Min(video_len, audio_len)
      /\ video_len > audio_len + Tolerance =>
            /\ Val(mux_cmd).t = Some(audio_len)
            /\ Val(mux_cmd).vcodec = "libx264"
      /\ video_len <= audio_len + Tolerance =>
            /\ Val(mux_cmd).t = None
            /\ Val(mux_cmd).vcodec = "copy"
            /\ Val(mux_cmd).shortest

C9_Witness ==
    /\ mux_pc = "done"
    /\ video_len = audio_len + Tolerance
    /\ Val(mux_cmd).vcodec = "copy"
    /\ Val(output_len) = audio_len

\* C10: plan entries are in scene-file order with each scene's entries
\* contiguous, and within a scene the parts are numbered 1, 2, ...,
\* total_parts in ascending order with one total_parts value.
C10_PlaybackOrder ==
    /\ \A k \in 1..(Len(scene_data) - 1) :
          scene_data[k].file <= scene_data[k + 1].file
    /\ \A k \in 1..Len(scene_data) :
        LET e == scene_data[k]
            first == k = 1 \/ scene_data[k - 1].file # e.file
            last == k = Len(scene_data) \/ scene_data[k + 1].file # e.file
        IN  /\ first => e.part = 1
            /\ ~first => /\ e.part = scene_data[k - 1].part + 1
                         /\ e.total_parts = scene_data[k - 1].total_parts
            /\ last => e.part = e.total_parts

C10_Witness ==
    /\ pc = "returned"
    /\ Len(scene_data) >= 3
    /\ scene_data[1].file = 1 /\ scene_data[1].total_parts = 1
    /\ scene_data[2].file = 2 /\ scene_data[2].total_parts >= 2

ValidMaxMeasures == max_measures = None \/ Val(max_measures) > 0

\* C11: with fewer than two measures and a positive max_measures the
\* planner raises nothing and every scene it has handled has exactly one
\* entry: part 1 of 1 at start offset 0 with the scene's full duration as
\* source span.
C11_FewMeasuresDisableSplitting ==
    (Len(measures) < 2 /\ max_measures # None /\ Val(max_measures) > 0) =>
        /\ pc # "raised"
        /\ \A j \in 1..Len(durations) :
            LET parts == EntriesOf(j)
            IN  /\ Len(parts) = 1
                /\ parts[1].part = 1
                /\ parts[1].total_parts = 1
                /\ parts[1].start_offset = 0
                /\ parts[1].original_duration = durations[j]

\* C12: when the scene directory has no scene files and the planner has
\* finished, the plan record is on disk with its header and no entries and
\* the planner's result is an empty sequence, not an error or a missing
\* plan file.
C12_NoScenesEmptyPlan ==
    (scenes_dir = {} /\ pc \notin {"main", "start"}) =>
        /\ pc = "returned"
        /\ plan_file = Some(HeaderLines(max_measures))
        /\ scene_data = <<>>

\* C13: a max_measures argument that is zero or negative is rejected
\* before planning starts: the planner is never entered, and the program
\* ends with a non-zero exit code.
C13_NonPositiveLimitRejected ==
    (max_measures # None /\ Val(max_measures) <= 0) =>
        /\ pc = "main"
        /\ exit_code \in {None, Some(1)}

\* C14: under a positive max_scene_duration every plan entry of a scene
\* of positive duration has source_span > 0 and start_offset >= 0.
C14_PositiveSpans ==
    (max_scene_duration # None /\ Val(max_scene_duration) > 0) =>
        \A k \in 1..Len(scene_data) :
            /\ scene_data[k].original_duration > 0
            /\ scene_data[k].start_offset >= 0

\* C15: every plan entry satisfies 0 <= trim_to <= source_span and
\* time_lost = source_span - trim_to >= 0.
C15_TrimWithinSpan ==
    \A k \in 1..Len(scene_data) :
        LET e == scene_data[k]
        IN  /\ 0 <= e.trim_to
            /\ e.trim_to <= e.original_duration
            /\ e.time_lost = e.original_duration - e.trim_to
            /\ e.time_lost >= 0

\* what C15 states, for the configurations C13 says are the valid ones
C15_UnderValidLimit == ValidMaxMeasures => C15_TrimWithinSpan

IsDataLine(line) == line # <<>> /\ line[1].k # "hash"

IsNineLine(line) ==
    /\ Len(line) = 9
    /\ \A i \in {2, 3, 7} : line[i].k = "int"
    /\ \A i \in {4, 5, 6, 8, 9} : line[i].k \in {"int", "real"}

WellFormedLine(line) == IsDataLine(line) /\ (IsNineLine(line) \/ IsLegacyLine(line))

\* C20: once the plan is loaded, the entries are the well-formed lines (nine
\* or six fields, every number parsing) in file order, and every other
\* line that is neither a comment nor blank produced no entry and one
\* warning.
C20_MalformedLinesWarned ==
    scenes # None =>
      LET lines == Val(plan_file)
          good == SelectSeq(lines, WellFormedLine)
          bad == SelectSeq(lines, LAMBDA l : IsDataLine(l) /\ ~WellFormedLine(l))
      IN  /\ Len(Val(scenes)) = Len(good)
          /\ \A k \in 1..Len(good) : Val(scenes)[k].file = good[k][1]
          /\ warnings = Len(bad)

\* C16: a failed assembly leaves no partial file at the output path: the
\* path holds what it held before (nothing, or the earlier file) or a
\* complete output.
C16_NoPartialOutput ==
    (asm_pc = "exited" /\ asm_exit # Some(0)) => output_file # "partial"

\* C17: a trim of a missing scene file fails, and a failed trim is the
\* last one: the assembly has exited with a non-zero code, no trim follows
\* it, and neither the concatenation nor the mux was started.
C17_TrimFailureAborts ==
    \A i \in 1..Len(trim_log) :
        /\ trim_log[i].scene_path.v \in missing => trim_log[i].returncode # 0
        /\ trim_log[i].returncode # 0 =>
              /\ i = Len(trim_log)
              /\ asm_pc = "exited"
              /\ asm_exit = Some(1)
              /\ concat_input = None
              /\ mux_pc = "idle" /\ mux_cmd = None /\ audio_duration = None
              /\ output_len = None

C17_Witness ==
    /\ scenes # None
    /\ Len(Val(scenes)) = 2
    /\ Len(trim_log) = 1
    /\ trim_log[1].scene_path.v \in missing
    /\ trim_log[1].returncode = 1
    /\ asm_pc = "exited"
    /\ asm_exit = Some(1)

\* C18: when the loaded plan has an entry with trim_to = 0 the executor
\* hands no zero-length trim to the transcoder, the assembly does not
\* exit 0 and it writes no output.
C18_ZeroTrimAborts ==
    (scenes # None /\ \E i \in 1..Len(Val(scenes)) : Val(scenes)[i].trim_to = 0) =>
        /\ \A k \in 1..Len(trim_log) : trim_log[k].t # 0
        /\ asm_exit # Some(0)
        /\ output_file # "final"

AsmTempKinds == {"temp_dir", "trimmed", "concatenated", "concat_list"}

C21_CompleteGroupsOnly ==
    (measures_file # None /\ beats_per_measure >= 1) =>
        LET lines == Val(measures_file)
            B == beats_per_measure
        IN  /\ Len(lines) = Len(beat_times) \div B
            /\ \A k \in 1..Len(lines) :
                  /\ lines[k].number = k
                  /\ lines[k].timestamp = Format6(beat_times[(k - 1) * B + 1])

\* what C21 states about the retained indices and the numbering alone
C21_RetainedIndices ==
    (measures_file # None /\ beats_per_measure >= 1) =>
        LET lines == Val(measures_file)
            B == beats_per_measure
            kept == {i \in 0..(Len(beat_times) - 1) : i % B = 0}
        IN  /\ Len(lines) = Cardinality(kept)
            /\ \A k \in 1..Len(lines) :
                  /\ (k - 1) * B \in kept
                  /\ lines[k].number = k
                  /\ lines[k].timestamp = Format6(beat_times[(k - 1) * B + 1])

\* C22: the track load_measures returns is strictly increasing.
C22_TrackStrictlyIncreasing ==
    filter_pc = "loaded" =>
        \A i \in 1..(Len(measures) - 1) : measures[i] < measures[i + 1]

\* C23: the steps bounce.py has started are 1, 2, ... in order, each once;
\* every step but the last started has returned 0; a step that returned
\* non-zero is the last one started; and bounce.py exits 0 exactly when
\* all five steps were started and returned 0.
C23_StepsInOrder ==
    /\ Len(step_log) <= 5
    /\ \A i \in 1..Len(step_log) :
          /\ step_log[i].step = i
          /\ i < Len(step_log) => step_log[i].returncode = Some(0)
          /\ step_log[i].returncode \notin {None, Some(0)} =>
                bounce_pc = "exited" /\ bounce_exit = Some(1)
    /\ bounce_exit # None =>
          (bounce_exit = Some(0) <=>
              /\ Len(step_log) = 5
              /\ \A i \in 1..5 : step_log[i].returncode = Some(0))

C23_Witness ==
    /\ bounce_exit = Some(1)
    /\ Len(step_log) = 3
    /\ step_log[3].returncode = Some(1)
    /\ asm_pc = "idle"

IsNumberOption(arg) == Val(arg).k \in {"int", "real"}
IsIntOption(arg) == Val(arg).k = "int"

ConfigError(args) ==
    \/ /\ args.scene_threshold # None
       /\ \/ ~IsNumberOption(args.scene_threshold)
          \/ LET a == Val(args.scene_threshold)
                 tenths == IF a.k = "int" THEN a.v * 10 ELSE a.v
             IN  tenths < 0 \/ tenths > 10
    \/ /\ args.beats_per_measure # None
       /\ (~IsIntOption(args.beats_per_measure) \/ Val(args.beats_per_measure).v <= 0)
    \/ /\ args.max_scene_measures # None
       /\ (~IsIntOption(args.max_scene_measures) \/ Val(args.max_scene_measures).v <= 0)
    \/ ~args.audio_exists
    \/ ~args.video_exists

\* C24: on a configuration error bounce.py starts no step: it is still in
\* main, or it has exited with a non-zero code.
C24_ConfigErrorsFailFast ==
    ConfigError(bounce_args) =>
        /\ step_log = <<>>
        /\ bounce_pc \in {"main", "exited"}
        /\ bounce_exit \in {None, Some(1)}

\* what C24 states, for a missing input file alone
C24_MissingInputFailsFast ==
    ~(bounce_args.audio_exists /\ bounce_args.video_exists) =>
        /\ step_log = <<>>
        /\ bounce_pc \in {"main", "exited"}
        /\ bounce_exit \in {None, Some(1)}

\* C25: the i-th trim is of the i-th loaded entry: its scene file, its
\* start_offset as start, its trim_to as duration, its own output file;
\* when the concatenation has started every entry has been trimmed once
\* with exit code 0 and the files handed over are the trim outputs in
\* plan order.
C25_OneTrimPerEntry ==
    /\ Len(trim_log) > 0 => scenes # None /\ Len(trim_log) <= Len(Val(scenes))
    /\ \A i \in 1..Len(trim_log) :
          /\ trim_log[i].scene_path = Val(scenes)[i].file
          /\ trim_log[i].ss = Val(scenes)[i].start_offset
          /\ trim_log[i].t = Val(scenes)[i].trim_to
          /\ \A j \in 1..Len(trim_log) :
                i # j => trim_log[i].output_path # trim_log[j].output_path
    /\ concat_input # None =>
          /\ Len(trim_log) = Len(Val(scenes))
          /\ \A i \in 1..Len(trim_log) : trim_log[i].returncode = 0
          /\ Val(concat_input) = [i \in 1..Len(trim_log) |-> trim_log[i].output_path]

C25_Witness ==
    /\ concat_input # None
    /\ Len(Val(concat_input)) = 2
    /\ trim_log[1].ss # trim_log[2].ss
    /\ trim_log[1].t # trim_log[2].t
    /\ asm_pc = "add_audio"

\* C26: for an initial threshold in (0, 1] every scene-filter run has a
\* threshold strictly below that of every earlier run, a retry follows
\* only a run that found at most 3 scene times, at most three runs are
\* made, and the scene times returned are those of the last run.
C26_ThresholdsDescend ==
    (det_threshold > 0 /\ det_threshold <= 1000) =>
        /\ Len(det_attempts) <= 3
        /\ \A i \in 1..Len(det_attempts), j \in 1..Len(det_attempts) :
              i < j => /\ det_attempts[j].threshold < det_attempts[i].threshold
                       /\ Len(det_attempts[i].scene_times) <= 3
        /\ (det_pc \in {"returned", "exited"} /\ det_attempts # <<>>) =>
              scene_times = det_attempts[Len(det_attempts)].scene_times

\* what C26 states, without the order of the thresholds
C26_AtMostThreeLastReturned ==
    /\ Len(det_attempts) <= 3
    /\ \A i \in 1..(Len(det_attempts) - 1) : Len(det_attempts[i].scene_times) <= 3
    /\ (det_pc \in {"returned", "exited"} /\ det_attempts # <<>>) =>
          scene_times = det_attempts[Len(det_attempts)].scene_times

\* C27: when a scene-filter run or a clip extraction has exited non-zero,
\* detect_scenes.py does not exit 0.
C27_ToolFailureIsFatal ==
    (\/ \E i \in 1..Len(det_attempts) : det_attempts[i].returncode # 0
     \/ \E i \in 1..Len(clip_log) : clip_log[i].returncode \notin {None, Some(0)})
    => det_exit # Some(0)

\* C28: on a track of at least two measures, whatever integer max_measures
\* is, the planner does not raise and every scene it has probed has at
\* least one plan entry.
C28_EverySceneCovered ==
    Len(measures) >= 2 =>
        /\ pc # "raised"
        /\ \A j \in 1..Len(durations) : EntriesOf(j) # <<>>

\* what C28 states, for max_measures absent, zero or positive
C28_UnderNonNegativeLimit ==
    (max_measures = None \/ Val(max_measures) >= 0) => C28_EverySceneCovered

Overlap(a, b) == a[1] < b[2] /\ b[1] < a[2]

\* C29: the segments returned are in ascending order and pairwise
\* disjoint, lie within [0, video_duration], each have start < end, and
\* none overlaps a boring segment.
C29_InterestingSegmentsSound ==
    interesting # None =>
        LET segs == Val(interesting)
        IN  /\ \A i \in 1..(Len(segs) - 1) : segs[i][2] <= segs[i + 1][1]
            /\ \A i \in 1..Len(segs) :
                  /\ 0 <= segs[i][1]
                  /\ segs[i][1] < segs[i][2]
                  /\ segs[i][2] <= seg_duration
                  /\ \A k \in 1..Len(boring_segments) :
                        ~Overlap(segs[i], boring_segments[k])

\* what C29 states, for boring segments that are pairwise disjoint and
\* lie within the video
C29_ForDisjointSegments ==
    (/\ \A k \in 1..Len(boring_segments) : boring_segments[k][2] <= seg_duration
     /\ \A k \in 1..Len(boring_segments), m \in 1..Len(boring_segments) :
           k # m => ~Overlap(boring_segments[k], boring_segments[m]))
    => C29_InterestingSegmentsSound

\* C30: once stop() has returned, no spinner thread is still running and
\* no frame was written after stop() cleared the line.
C30_StoppedSpinnerIsQuiet ==
    stop_returned =>
        /\ \A t \in 1..Len(threads) : ~Alive(t)
        /\ terminal = "cleared"

\* what C30 states, when start() is never called on a spinner that is
\* already started
C30_WithoutDoubleStart == ~started_twice => C30_StoppedSpinnerIsQuiet

====
